---- MODULE Spec2Model ----
(***************************************************************************)
(* A model of the AT command library: the grammar codec of at/at.py and    *)
(* the chat session of at/chat.py (one caller thread, one ChatThread that  *)
(* owns the serial port, two FIFO queues between them).                    *)
(*                                                                         *)
(* A Python str is a sequence of one-character strings, so that the        *)
(* codec's string operations are computed as the code computes them.       *)
(***************************************************************************)
EXTENDS Integers, Sequences, FiniteSets, TLC

(***************************************************************************)
(* Bounds of the model.                                                    *)
(***************************************************************************)
\* lines the transport delivers to ChatThread.run over one session
MaxLines == 3
\* operations (send_cmd, close) the caller performs on one session
MaxOps == 3

(***************************************************************************)
(* Python str operations used by at.py and chat.py.                        *)
(***************************************************************************)
CR == "\r"
LF == "\n"

\* the characters str.strip() removes
Whitespace == {" ", "\t", CR, LF, "\f"}

LowerCase == <<"a","b","c","d","e","f","g","h","i","j","k","l","m",
               "n","o","p","q","r","s","t","u","v","w","x","y","z">>
UpperCase == <<"A","B","C","D","E","F","G","H","I","J","K","L","M",
               "N","O","P","Q","R","S","T","U","V","W","X","Y","Z">>

UpperChar(c) ==
    IF \E i \in 1..26 : LowerCase[i] = c
    THEN UpperCase[CHOOSE i \in 1..26 : LowerCase[i] = c]
    ELSE c

\* s.upper()
Upper(s) == [i \in 1..Len(s) |-> UpperChar(s[i])]

\* s.startswith(p), s.endswith(p)
StartsWith(s, p) == Len(s) >= Len(p) /\ SubSeq(s, 1, Len(p)) = p
EndsWith(s, p) == Len(s) >= Len(p) /\ SubSeq(s, Len(s) - Len(p) + 1, Len(s)) = p

\* s.lstrip(chars), s.rstrip(chars), s.strip(chars): chars is a SET of characters
RECURSIVE LStrip(_, _)
LStrip(s, cs) == IF s # <<>> /\ Head(s) \in cs THEN LStrip(Tail(s), cs) ELSE s

RECURSIVE RStrip(_, _)
RStrip(s, cs) ==
    IF s # <<>> /\ s[Len(s)] \in cs THEN RStrip(SubSeq(s, 1, Len(s) - 1), cs) ELSE s

Strip(s, cs) == RStrip(LStrip(s, cs), cs)

\* the set of characters of a str, as the argument of strip
Chars(s) == {s[i] : i \in 1..Len(s)}

\* sub in s
Contains(s, sub) ==
    \E i \in 1..(Len(s) - Len(sub) + 1) : SubSeq(s, i, i + Len(sub) - 1) = sub

\* s.split(c) for a one-character separator c
RECURSIVE Split(_, _)
Split(s, c) ==
    IF \E i \in 1..Len(s) : s[i] = c
    THEN LET i == CHOOSE k \in 1..Len(s) : s[k] = c /\ \A j \in 1..(k - 1) : s[j] # c
         IN  <<SubSeq(s, 1, i - 1)>> \o Split(SubSeq(s, i + 1, Len(s)), c)
    ELSE <<s>>

\* sep.join(strs)
RECURSIVE Join(_, _)
Join(strs, sep) ==
    IF strs = <<>> THEN <<>>
    ELSE IF Len(strs) = 1 THEN strs[1]
    ELSE strs[1] \o sep \o Join(Tail(strs), sep)

Digits == <<"0","1","2","3","4","5","6","7","8","9">>
IsDigit(c) == \E i \in 1..10 : Digits[i] = c
DigitVal(c) == (CHOOSE i \in 1..10 : Digits[i] = c) - 1

RECURSIVE DigitsVal(_)
DigitsVal(s) ==
    IF s = <<>> THEN 0
    ELSE 10 * DigitsVal(SubSeq(s, 1, Len(s) - 1)) + DigitVal(s[Len(s)])

SelectDigits(s) == SelectSeq(s, IsDigit)

\* the literals int(s) accepts: surrounding whitespace, one optional sign,
\* decimal digits with single underscores between digits
IntBody(s) == LET t == Strip(s, Whitespace)
              IN  IF t # <<>> /\ t[1] \in {"+", "-"} THEN Tail(t) ELSE t

IsIntLiteral(s) ==
    LET b == IntBody(s)
    IN  /\ b # <<>>
        /\ IsDigit(b[1])
        /\ IsDigit(b[Len(b)])
        /\ \A i \in 1..Len(b) : IsDigit(b[i]) \/ b[i] = "_"
        /\ \A i \in 1..(Len(b) - 1) : ~(b[i] = "_" /\ b[i + 1] = "_")

\* int(s), for s an int literal
IntOf(s) ==
    LET t == Strip(s, Whitespace)
        v == DigitsVal(SelectDigits(IntBody(s)))
    IN  IF t[1] = "-" THEN 0 - v ELSE v

\* str(n) for an int n
RECURSIVE NatStr(_)
NatStr(n) == IF n < 10 THEN <<Digits[n + 1]>>
             ELSE NatStr(n \div 10) \o <<Digits[(n % 10) + 1]>>

IntStr(n) == IF n < 0 THEN <<"-">> \o NatStr(0 - n) ELSE NatStr(n)

(***************************************************************************)
(* at/at.py: constants.                                                    *)
(***************************************************************************)
AT_TYPE_VALUE_SET == "SET"
AT_TYPE_VALUE_READ == "READ"
AT_TYPE_VALUE_TEST == "TEST"
AT_TYPE_VALUE_RESPONSE == "RESPONSE"

AT_PARAM_SEP == ","
AT_RSP_SEP == ":"
AT_PARAM_CONCAT_SEP == ";"

AT_CMD_PREFIX == <<"A", "T">>
AT_CMD_SET_IDENT == "="
AT_CMD_READ_IDENT == <<"?">>
AT_CMD_TEST_IDENT == <<"=", "?">>
AT_CMD_STRING_IDENT == "\""
AT_CMD_ARRAY_START == "("
AT_CMD_ARRAY_END == ")"

AT_RSP_OK == <<"O", "K">>
AT_RSP_ERROR == <<"E", "R", "R", "O", "R">>

AT_STD_PREFX == "+"
AT_PROP_PREFX == "%"

RESPONSE_STR_DANGLING_QUOTE == <<"\"", CR, LF>>

\* Python's None as a response label: no str, since "None" is no character
None == <<"None">>

(***************************************************************************)
(* at/at.py: parameter values.  A param is None, an int, a str or a list.  *)
(***************************************************************************)
PNone == [t |-> "None"]
PInt(n) == [t |-> "int", v |-> n]
PStr(s) == [t |-> "str", v |-> s]
PList(l) == [t |-> "list", v |-> l]

\* _parse_param(param_str)
_parse_param(param_str) ==
    IF param_str = <<>> THEN PNone
    ELSE IF param_str[1] = AT_CMD_STRING_IDENT
         THEN PStr(Strip(param_str, {AT_CMD_STRING_IDENT}))
    ELSE IF IsIntLiteral(param_str) THEN PInt(IntOf(param_str))
    ELSE PStr(param_str)

\* _encode_param(param), for a param that is no list
_encode_param(param) ==
    IF param.t = "None" THEN <<" ">>
    ELSE IF param.t = "str"
         THEN <<AT_CMD_STRING_IDENT>> \o param.v \o <<AT_CMD_STRING_IDENT>>
    ELSE IntStr(param.v)

\* the outcome of a codec call: the value returned, or the exception raised
Returned(v) == [exc |-> "none", val |-> v]
Raised(e) == [exc |-> e, val |-> <<>>]

\* _parse_params(params_str): the loop over the comma-separated tokens, from
\* token i on; open says that array is a list (not None)
RECURSIVE ParseParamsFrom(_, _, _, _, _)
ParseParamsFrom(params, i, result, open, array) ==
    IF i > Len(params) THEN Returned(result)
    ELSE
      LET s0 == Strip(params[i], Whitespace)
          starts == s0 # <<>> /\ s0[1] = AT_CMD_ARRAY_START
          s1 == IF starts THEN Tail(s0) ELSE s0
          open1 == open \/ starts
          array1 == IF starts THEN <<>> ELSE array
          end_of_array == s1 # <<>> /\ s1[Len(s1)] = AT_CMD_ARRAY_END
          s2 == IF end_of_array THEN SubSeq(s1, 1, Len(s1) - 1) ELSE s1
          array2 == IF open1 THEN Append(array1, _parse_param(s2)) ELSE array1
          result2 == IF open1 THEN result ELSE Append(result, _parse_param(s2))
          result3 == IF end_of_array
                     THEN Append(result2, IF open1 THEN PList(array2) ELSE PNone)
                     ELSE result2
      IN  IF starts /\ open
          THEN Raised("ATError")
          ELSE ParseParamsFrom(params, i + 1, result3,
                               open1 /\ ~end_of_array,
                               IF end_of_array THEN <<>> ELSE array2)

_parse_params(params_str) ==
    ParseParamsFrom(Split(params_str, AT_PARAM_SEP), 1, <<>>, FALSE, <<>>)

\* _encode_params(params_seq)
RECURSIVE _encode_params(_)
_encode_params(params_seq) ==
    Join([i \in 1..Len(params_seq) |->
            IF params_seq[i].t = "list"
            THEN <<AT_CMD_ARRAY_START>> \o _encode_params(params_seq[i].v)
                                        \o <<AT_CMD_ARRAY_END>>
            ELSE _encode_param(params_seq[i])],
         <<AT_PARAM_SEP>>)

(***************************************************************************)
(* at/at.py: commands and responses (the dicts of the code).               *)
(***************************************************************************)
Response(response, error, params) ==
    [type |-> AT_TYPE_VALUE_RESPONSE, response |-> response,
     error |-> error, params |-> params]

Command(cmd, type, params) == [type |-> type, cmd |-> cmd, params |-> params]

\* a SET command with the params that _parse_params returned, if it did
SetCommand(cmd, ps) ==
    IF ps.exc # "none" THEN ps
    ELSE Returned(Command(LStrip(cmd, Chars(AT_CMD_PREFIX)), AT_TYPE_VALUE_SET, ps.val))

\* cmd, params = stmt.split(AT_CMD_SET_IDENT), and the command of them
SetCommandOf(parts) ==
    IF Len(parts) # 2 THEN Raised("ValueError")
    ELSE SetCommand(parts[1], _parse_params(parts[2]))

\* one statement of a SET command line (the body of the loop over stmts)
ParseStmt(stmt) ==
    IF \E i \in 1..Len(stmt) : stmt[i] = AT_CMD_SET_IDENT
    THEN SetCommandOf(Split(stmt, AT_CMD_SET_IDENT))
    ELSE Returned(Command(LStrip(stmt, Chars(AT_CMD_PREFIX)), AT_TYPE_VALUE_SET, <<>>))

\* the loop over stmts: the first exception raised, else the list of commands;
\* r is what the statement before stmts[i] gave
RECURSIVE ParseStmts(_, _, _, _)
ParseStmts(stmts, i, result, r) ==
    IF r.exc # "none" THEN r
    ELSE IF i > Len(stmts) THEN Returned(Append(result, r.val))
    ELSE ParseStmts(stmts, i + 1, Append(result, r.val), ParseStmt(stmts[i]))

\* what parse_string returns or raises.  list says that the value returned
\* is a list of dicts (a compound command) and not one dict.
ParsedOne(v) == [exc |-> "none", list |-> FALSE, val |-> v]
ParsedList(l) == [exc |-> "none", list |-> TRUE, val |-> l]
ParseRaised(e) == [exc |-> e, list |-> FALSE, val |-> <<>>]

\* a variant of ResponseOf that never sets the error flag
ResponseOf_NoError(response, ps) ==
    IF ps.exc # "none" THEN ParseRaised(ps.exc)
    ELSE ParsedOne(Response(response, FALSE, ps.val))

\* parse_string: the response of a label and the params that _parse_params
\* returned, if it did
ResponseOf(response, ps) ==
    IF ps.exc # "none" THEN ParseRaised(ps.exc)
    ELSE ParsedOne(Response(response, Contains(response, AT_RSP_ERROR), ps.val))

\* parse_string: response, params = cmd_str.split(AT_RSP_SEP)
ParseResponseOf(parts) ==
    IF Len(parts) # 2 THEN ParseRaised("ValueError")
    ELSE ResponseOf(parts[1], _parse_params(parts[2]))

\* parse_string: a line that starts with '+' or '%'
ParseResponse(cmd_str) == ParseResponseOf(Split(cmd_str, AT_RSP_SEP))

\* parse_string: the name of a READ or TEST command
StripCommand(cmd_str) ==
    RStrip(LStrip(Upper(cmd_str), Chars(AT_CMD_PREFIX)), Chars(AT_CMD_TEST_IDENT))

\* parse_string: the dict or the list returned for the commands parsed
CommandsOf(r) ==
    IF r.exc # "none" THEN ParseRaised(r.exc)
    ELSE IF Len(r.val) = 1 THEN ParsedOne(r.val[1])
    ELSE ParsedList(r.val)

\* parse_string: a regular or compound command
ParseCommandsOf(stmts) ==
    CommandsOf(ParseStmts(stmts, 2, <<>>, ParseStmt(stmts[1])))

ParseCommands(cmd_str) == ParseCommandsOf(Split(cmd_str, AT_PARAM_CONCAT_SEP))

\* parse_string: the last else, a line of free text
ParseText(cmd_str) ==
    ParsedOne(Response(None, FALSE,
        <<PStr(IF Strip(cmd_str, Whitespace) = <<AT_CMD_STRING_IDENT>> THEN <<>>
               ELSE IF EndsWith(cmd_str, RESPONSE_STR_DANGLING_QUOTE)
                    THEN Strip(cmd_str, Chars(RESPONSE_STR_DANGLING_QUOTE))
               ELSE cmd_str)>>))

\* a variant of ParseChain that lets anything follow OK or ERROR
ParseChain_Trailing(cmd_str, temp_cmd_str) ==
    IF cmd_str = <<>> THEN ParseRaised("ATError")
    ELSE IF StartsWith(temp_cmd_str, AT_RSP_OK)
    THEN ParsedOne(Response(AT_RSP_OK, FALSE, <<>>))
    ELSE IF StartsWith(temp_cmd_str, AT_RSP_ERROR)
    THEN ParsedOne(Response(AT_RSP_ERROR, TRUE, <<>>))
    ELSE IF \/ StartsWith(temp_cmd_str, <<AT_STD_PREFX>>)
            \/ StartsWith(temp_cmd_str, <<AT_PROP_PREFX>>)
    THEN ParseResponse(cmd_str)
    ELSE IF EndsWith(cmd_str, AT_CMD_TEST_IDENT)
    THEN ParsedOne(Command(StripCommand(cmd_str), AT_TYPE_VALUE_TEST, <<>>))
    ELSE IF EndsWith(cmd_str, AT_CMD_READ_IDENT)
    THEN ParsedOne(Command(StripCommand(cmd_str), AT_TYPE_VALUE_READ, <<>>))
    ELSE IF StartsWith(temp_cmd_str, AT_CMD_PREFIX)
    THEN ParseCommands(cmd_str)
    ELSE ParseText(cmd_str)

\* parse_string: the chain of tests, on cmd_str and temp_cmd_str
ParseChain(cmd_str, temp_cmd_str) ==
    IF cmd_str = <<>> THEN ParseRaised("ATError")
    ELSE IF StartsWith(temp_cmd_str, AT_RSP_OK)
    THEN IF Len(temp_cmd_str) # Len(AT_RSP_OK) THEN ParseRaised("ATError")
         ELSE ParsedOne(Response(AT_RSP_OK, FALSE, <<>>))
    ELSE IF StartsWith(temp_cmd_str, AT_RSP_ERROR)
    THEN IF Len(temp_cmd_str) # Len(AT_RSP_ERROR) THEN ParseRaised("ATError")
         ELSE ParsedOne(Response(AT_RSP_ERROR, TRUE, <<>>))
    ELSE IF \/ StartsWith(temp_cmd_str, <<AT_STD_PREFX>>)
            \/ StartsWith(temp_cmd_str, <<AT_PROP_PREFX>>)
    THEN ParseResponse(cmd_str)
    ELSE IF EndsWith(cmd_str, AT_CMD_TEST_IDENT)
    THEN ParsedOne(Command(StripCommand(cmd_str), AT_TYPE_VALUE_TEST, <<>>))
    ELSE IF EndsWith(cmd_str, AT_CMD_READ_IDENT)
    THEN ParsedOne(Command(StripCommand(cmd_str), AT_TYPE_VALUE_READ, <<>>))
    ELSE IF StartsWith(temp_cmd_str, AT_CMD_PREFIX)
    THEN ParseCommands(cmd_str)
    ELSE ParseText(cmd_str)

\* parse_string(cmd_str)
parse_string(cmd_str) == ParseChain(cmd_str, Upper(Strip(cmd_str, Whitespace)))

\* a variant of EncodeCommands that writes the prefix before every command
RECURSIVE EncodeCommands_Prefixed(_, _)
EncodeCommands_Prefixed(cmd_dicts, result_strs) ==
    LET c == cmd_dicts[1]
        strs1 == result_strs \o c.cmd
        strs2 == IF c.type = AT_TYPE_VALUE_SET
                 THEN IF c.params # <<>>
                      THEN strs1 \o <<AT_CMD_SET_IDENT>> \o _encode_params(c.params)
                      ELSE strs1
                 ELSE IF c.type = AT_TYPE_VALUE_READ THEN strs1 \o AT_CMD_READ_IDENT
                 ELSE strs1 \o AT_CMD_TEST_IDENT
    IN  IF cmd_dicts = <<>> THEN Raised("IndexError")
        ELSE IF c.type \notin {AT_TYPE_VALUE_SET, AT_TYPE_VALUE_READ, AT_TYPE_VALUE_TEST}
        THEN Raised("ATError")
        ELSE IF Len(cmd_dicts) = 1 THEN Returned(strs2)
        ELSE EncodeCommands_Prefixed(Tail(cmd_dicts),
                                     strs2 \o <<AT_PARAM_CONCAT_SEP>> \o AT_CMD_PREFIX)

\* encode_command(cmd_dicts, result_strs) for a tuple or list cmd_dicts:
\* the strings appended to result_strs, joined
RECURSIVE EncodeCommands(_, _)
EncodeCommands(cmd_dicts, result_strs) ==
    LET c == cmd_dicts[1]
        strs1 == result_strs \o c.cmd
        strs2 == IF c.type = AT_TYPE_VALUE_SET
                 THEN IF c.params # <<>>
                      THEN strs1 \o <<AT_CMD_SET_IDENT>> \o _encode_params(c.params)
                      ELSE strs1
                 ELSE IF c.type = AT_TYPE_VALUE_READ THEN strs1 \o AT_CMD_READ_IDENT
                 ELSE strs1 \o AT_CMD_TEST_IDENT
    IN  IF cmd_dicts = <<>> THEN Raised("IndexError")
        ELSE IF c.type \notin {AT_TYPE_VALUE_SET, AT_TYPE_VALUE_READ, AT_TYPE_VALUE_TEST}
        THEN Raised("ATError")
        ELSE IF Len(cmd_dicts) = 1 THEN Returned(strs2)
        ELSE EncodeCommands(Tail(cmd_dicts), strs2 \o <<AT_PARAM_CONCAT_SEP>>)

\* encode_command(cmd_dicts): one dict is wrapped into a tuple first
encode_command(cmd_dicts, isList) ==
    EncodeCommands(IF isList THEN cmd_dicts ELSE <<cmd_dicts>>, AT_CMD_PREFIX)

(***************************************************************************)
(* at/chat.py: the session.                                                *)
(***************************************************************************)
VARIABLES
    port_present,   \* the device path of the port exists
    c_pc,           \* the caller: where it is in Chat's methods
    chat_closed,    \* Chat._closed
    rx_q,           \* Chat._rx_q: str lines and exceptions, thread to caller
    tx_q,           \* Chat._tx_q: commands, caller to thread
    seq,            \* _write's argument, until it is put on tx_q
    timeout_s,      \* send_cmd's timeout_s
    result,         \* send_cmd's result list
    waited,         \* time the current rx_q.get has been blocked
    elapsed,        \* time the current send_cmd has been blocked in all
    t_pc,           \* the thread: where it is in ChatThread.run
    thread_closed,  \* ChatThread._closed
    stop,           \* ChatThread._stop (the Event is set)
    err,            \* the exception the thread's except clause caught
    escaped,        \* an exception left ChatThread.run uncaught
    ser_open,       \* the thread holds the serial port (inside the with block)
    wire,           \* history: the payloads written to the serial port
    rx_log,         \* history: the lines the thread put on rx_q
    decoded,        \* history: the lines send_cmd passed to parse_string, each
                    \* with what parse_string gave
    call,           \* history: the running send_cmd (what held when it began)
    ops,            \* history: the caller's completed operations
    ret,            \* what the last completed operation returned
    after_close,    \* history: what the thread did to the port since close()
    codec_pc,       \* the codec exercised alone: which call comes next
    in_kind,        \* the family the codec's input was drawn from
    in_str,         \* a line given to parse_string
    in_cmd,         \* a command given to encode_command
    out_parsed,     \* what parse_string returned or raised
    out_encoded,    \* what encode_command returned or raised
    out_params      \* what _parse_params returned or raised

codecVars == <<codec_pc, in_kind, in_str, in_cmd, out_parsed, out_encoded,
               out_params>>

sessionVars == <<port_present, c_pc, chat_closed, rx_q, tx_q, seq, timeout_s,
                 result, waited, elapsed, t_pc, thread_closed, stop, err,
                 escaped, ser_open, wire, rx_log, decoded, call, ops, ret, after_close>>

vars == <<sessionVars, codecVars>>

callerVars == <<c_pc, chat_closed, seq, timeout_s, result, waited, elapsed,
                decoded, call, ops, ret>>
threadVars == <<t_pc, err, escaped, ser_open, wire, rx_log, after_close>>

\* ---- values -------------------------------------------------------------

\* exceptions: the class and str(exception)
Exc(cls, msg) == [cls |-> cls, msg |-> msg]
NoExc == Exc("none", "")

\* ChatError.__init__
ChatError(error_str) == Exc("ChatError", error_str)

PortClosed == ChatError("Port is closed.")
AlreadyClosed == ChatError("Port is already closed.")
ThreadClosed == ChatError("Thread closed unexpectedly.")
\* the message of send_cmd's last line, its {} left unfilled
TimedOut == ChatError("Command timed out ({} seconds).")
\* queue.Empty, raised by Queue.get when its timeout ends
QueueEmpty == Exc("queue.Empty", "")

\* what serial.Serial(port) raises when the device path is absent
OpenFaults == {Exc("FileNotFoundError", "No such file or directory"),
               Exc("SerialException", "could not open port")}
\* what ser.write and ser.readline raise when the device fails
IoFault == Exc("SerialException", "device disconnected")

\* items of the queues
StrItem(s) == [k |-> "str", v |-> s]
BytesItem(b) == [k |-> "bytes", v |-> b]
ExcItem(e) == [k |-> "exc", v |-> e]

NULL_BYTE == <<"\\x00">>
CR_LF == <<CR, LF>>
\* a byte that is not UTF-8
BadByte == "\\xff"

\* the lines the modem sends (bytes that decode to the same characters)
LineOK == <<"O", "K", CR, LF>>
LineError == <<"+", "C", "M", "E", " ", "E", "R", "R", "O", "R", ":", " ", "5", CR, LF>>
LineData == <<"+", "C", "G", "S", "N", ":", " ", "1", CR, LF>>
LineEcho == <<"A", "T", "+", "C", "G", "S", "N", CR, LF>>
LineBad == <<"O", "K", "!", CR, LF>>
LineBlank == <<CR, LF>>
Lines == {LineOK, LineError, LineData, LineEcho, LineBad, LineBlank}

\* what one ser.readline() returns: nothing within the poll timeout, a NULL
\* byte, a line, or bytes that are not UTF-8
ReadResults == {<<>>, NULL_BYTE, <<BadByte, CR, LF>>} \cup Lines

\* bytes.decode(): fails on a byte that is not UTF-8
Decodable(b) == \A i \in 1..Len(b) : b[i] # BadByte

\* the commands the caller sends: text, or one dict (of the same command)
CmdText == StrItem(<<"A", "T", "+", "C", "G", "S", "N">>)
CmdDict == [k |-> "dict", v |-> Command(<<"+", "C", "G", "S", "N">>, AT_TYPE_VALUE_SET, <<>>)]
\* a list of two dicts: a compound command
CmdList == [k |-> "list",
            v |-> <<Command(<<"+", "C", "G", "S", "N">>, AT_TYPE_VALUE_SET, <<>>),
                    Command(<<"+", "C", "F", "U", "N">>, AT_TYPE_VALUE_READ, <<>>)>>]
Cmds == {CmdText, CmdDict, CmdList}

\* the timeouts the caller gives, in time units
Timeouts == {2}

NoCall == [active |-> FALSE]
NoRet == <<>>

TypeOK ==
    /\ port_present \in BOOLEAN
    /\ c_pc \in {"new", "idle", "write", "read", "get"}
    /\ chat_closed \in BOOLEAN
    /\ t_pc \in {"unstarted", "open", "loop", "drain", "readline", "except",
                 "finally", "done"}
    /\ thread_closed \in BOOLEAN /\ stop \in BOOLEAN
    /\ escaped \in BOOLEAN /\ ser_open \in BOOLEAN
    /\ Len(rx_log) <= MaxLines
    /\ Len(ops) <= MaxOps

\* close() has not set the stop Event; and the record begun when it does:
\* whether commands were waiting on tx_q, and the calls of ser.readline and
\* ser.write made since (counted up to two)
NotClosed == [set |-> FALSE, queued |-> FALSE, reads |-> 0, writes |-> 0]
ClosedNow(q) == [set |-> TRUE, queued |-> q # <<>>, reads |-> 0, writes |-> 0]
ReadCounted(a) == IF a.set /\ a.reads < 2 THEN [a EXCEPT !.reads = @ + 1] ELSE a
WriteCounted(a) == IF a.set /\ a.writes < 2 THEN [a EXCEPT !.writes = @ + 1] ELSE a

\* no Chat constructed yet
SessionInit ==
    /\ c_pc = "new"
    /\ chat_closed = FALSE
    /\ rx_q = <<>> /\ tx_q = <<>>
    /\ seq = <<>> /\ timeout_s = 0 /\ result = <<>>
    /\ waited = 0 /\ elapsed = 0
    /\ t_pc = "unstarted"
    /\ thread_closed = FALSE /\ stop = FALSE
    /\ err = NoExc /\ escaped = FALSE /\ ser_open = FALSE
    /\ wire = <<>> /\ rx_log = <<>> /\ decoded = <<>>
    /\ call = NoCall /\ ops = <<>> /\ ret = NoRet
    /\ after_close = NotClosed

\* no command given, no call made
NoCommand == [list |-> FALSE, v |-> <<>>]
NotParsed == ParseRaised("not called")
NotEncoded == Raised("not called")

\* the codec not exercised
CodecIdle ==
    /\ codec_pc = "idle" /\ in_kind = "none"
    /\ in_str = <<>> /\ in_cmd = NoCommand
    /\ out_parsed = NotParsed /\ out_encoded = NotEncoded
    /\ out_params = NotEncoded

Init ==
    /\ port_present \in BOOLEAN
    /\ SessionInit
    /\ CodecIdle

\* ---- the caller: Chat ---------------------------------------------------

\* Chat.__init__: the queues, the flag, and the thread, started
Chat_init ==
    /\ c_pc = "new"
    /\ rx_q' = <<>> /\ tx_q' = <<>>
    /\ chat_closed' = FALSE
    /\ t_pc' = "open"
    /\ c_pc' = "idle"
    /\ UNCHANGED codecVars
    /\ UNCHANGED <<port_present, seq, timeout_s, result, waited, elapsed,
                   thread_closed, stop, err, escaped, ser_open, wire, rx_log,
                   decoded, call, ops, ret, after_close>>

\* the entry of ops for an operation that ends now: what it raised, and
\* whether the thread had ended when the operation began (t0) and when it
\* ended (t1)
OpRecord(op, exc) ==
    [op |-> op, exc |-> exc,
     t0 |-> IF call.active THEN call.t0 ELSE t_pc = "done",
     t1 |-> t_pc = "done",
     \* the lines decoded before the operation began
     start |-> IF call.active THEN call.start ELSE Len(decoded)]

\* the operation returns r or raises exc: back to the caller's code
Complete(op, exc, r) ==
    /\ c_pc' = "idle"
    /\ ops' = Append(ops, OpRecord(op, exc))
    /\ ret' = r
    /\ call' = NoCall
    /\ seq' = <<>> /\ timeout_s' = 0 /\ result' = <<>>
    /\ waited' = 0 /\ elapsed' = 0

\* a close that leaves Chat._closed as it was
CloseEffects_NoFlag ==
    /\ chat_closed' = chat_closed
    /\ stop' = TRUE
    /\ thread_closed' = TRUE

\* a close that does not set the thread's stop Event
CloseEffects_NoStop ==
    /\ chat_closed' = TRUE
    /\ stop' = stop
    /\ thread_closed' = TRUE

\* Chat.close past its check, with ChatThread.close
CloseEffects ==
    /\ chat_closed' = TRUE
    /\ stop' = TRUE
    /\ thread_closed' = TRUE

\* Chat.close
Chat_close ==
    /\ c_pc = "idle"
    /\ Len(ops) < MaxOps
    /\ IF chat_closed
       THEN /\ Complete("close", AlreadyClosed, NoRet)
            /\ UNCHANGED <<chat_closed, stop, thread_closed, after_close>>
       ELSE /\ CloseEffects
            /\ Complete("close", NoExc, NoRet)
            /\ after_close' = ClosedNow(tx_q)
    /\ UNCHANGED codecVars
    /\ UNCHANGED <<port_present, rx_q, tx_q, decoded>>
    /\ UNCHANGED <<t_pc, err, escaped, ser_open, wire, rx_log>>

\* send_cmd up to its call of _write or _read; enc is what encode_command
\* gave for a dict
SendEncoded(cmd, t, enc) ==
    IF chat_closed
    THEN /\ Complete("send_cmd", PortClosed, NoRet)
    ELSE IF enc.exc # "none"
    THEN /\ Complete("send_cmd", Exc(enc.exc, ""), NoRet)
    ELSE /\ c_pc' = IF cmd.k \in {"str", "dict"} THEN "write" ELSE "read"
         /\ seq' = IF cmd.k = "str" THEN cmd
                   ELSE IF cmd.k = "dict" THEN StrItem(enc.val) ELSE <<>>
         /\ timeout_s' = t
         /\ result' = <<>>
         /\ call' = [active |-> TRUE, t0 |-> t_pc = "done", start |-> Len(decoded)]
         /\ UNCHANGED <<ops, ret, waited, elapsed>>

SendBegin(cmd, t) ==
    SendEncoded(cmd, t, IF cmd.k = "dict" THEN encode_command(cmd.v, FALSE)
                        ELSE Returned(<<>>))

\* a send_cmd that first throws away what is waiting on rx_q
Chat_send_cmd_Flushing ==
    /\ c_pc = "idle"
    /\ Len(ops) < MaxOps
    /\ \E cmd \in Cmds, t \in Timeouts : SendBegin(cmd, t)
    /\ rx_q' = <<>>
    /\ UNCHANGED codecVars
    /\ UNCHANGED <<port_present, chat_closed, stop, thread_closed, tx_q, decoded>>
    /\ UNCHANGED threadVars

Chat_send_cmd ==
    /\ c_pc = "idle"
    /\ Len(ops) < MaxOps
    /\ \E cmd \in Cmds, t \in Timeouts : SendBegin(cmd, t)
    /\ UNCHANGED codecVars
    /\ UNCHANGED <<port_present, chat_closed, stop, thread_closed, rx_q, tx_q, decoded>>
    /\ UNCHANGED threadVars

\* the place of the first exception in the queue, 0 if there is none
FirstExc(q) ==
    IF \E i \in 1..Len(q) : q[i].k = "exc"
    THEN CHOOSE i \in 1..Len(q) : q[i].k = "exc" /\ \A j \in 1..(i - 1) : q[j].k # "exc"
    ELSE 0

\* the method goes on past the check of the thread
GoOn(on) ==
    /\ c_pc' = on
    /\ UNCHANGED <<ops, ret, call, timeout_s, result, waited, elapsed>>

\* _read and _write without their check of the thread
ThreadCheck_NoCheck(on) ==
    /\ GoOn(on)
    /\ UNCHANGED <<rx_q, chat_closed, stop, thread_closed>>

\* the check of the thread that _read and _write both make, with
\* _raise_thread_errors; on is the place the method goes on at
ThreadCheck(on) ==
    IF thread_closed
    THEN IF rx_q = <<>>
         THEN /\ CloseEffects
              /\ Complete("send_cmd", ThreadClosed, NoRet)
              /\ UNCHANGED rx_q
         ELSE IF FirstExc(rx_q) > 0
         THEN \* _raise_thread_errors: raise item
              /\ rx_q' = SubSeq(rx_q, FirstExc(rx_q) + 1, Len(rx_q))
              /\ Complete("send_cmd", rx_q[FirstExc(rx_q)].v, NoRet)
              /\ UNCHANGED <<chat_closed, stop, thread_closed>>
         ELSE \* _raise_thread_errors: the queue is drained, self.close()
              /\ rx_q' = <<>>
              /\ CloseEffects
              /\ GoOn(on)
    ELSE /\ GoOn(on)
         /\ UNCHANGED <<rx_q, chat_closed, stop, thread_closed>>

\* _write: the checks, and self._tx_q.put(seq) when they pass
Chat_write ==
    /\ c_pc = "write"
    /\ IF chat_closed
       THEN /\ Complete("send_cmd", PortClosed, NoRet)
            /\ UNCHANGED <<rx_q, chat_closed, stop, thread_closed>>
       ELSE ThreadCheck("read")
    /\ IF c_pc' = "read"
       THEN tx_q' = Append(tx_q, seq) /\ seq' = <<>>
       ELSE UNCHANGED tx_q
    /\ UNCHANGED codecVars
    /\ UNCHANGED <<port_present, decoded>>
    /\ UNCHANGED threadVars

\* _read up to the get
Chat_read ==
    /\ c_pc = "read"
    /\ IF chat_closed
       THEN /\ Complete("send_cmd", PortClosed, NoRet)
            /\ UNCHANGED <<rx_q, chat_closed, stop, thread_closed>>
       ELSE ThreadCheck("get") /\ (c_pc' = "get" => UNCHANGED seq)
    /\ UNCHANGED codecVars
    /\ UNCHANGED <<port_present, tx_q, decoded>>
    /\ UNCHANGED threadVars

\* a send_cmd that takes only OK for the end of a command
IsTerminal_OkOnly(res) == res.response = AT_RSP_OK

\* send_cmd: a response ends the command
IsTerminal(res) == res.response = AT_RSP_OK \/ res.error

\* send_cmd: result.append(res)
AppendResult(res_list, res) == Append(res_list, res)

\* send_cmd: the loop goes on with the next _read
NextRead ==
    /\ c_pc' = "read"
    /\ waited' = 0
    /\ UNCHANGED <<ops, ret, call, seq, timeout_s, elapsed>>

\* send_cmd: the body of the loop past res = at.parse_string(line)
HandleParsed(line, res) ==
    /\ decoded' = Append(decoded, [line |-> line, res |-> res])
    /\ IF res.exc # "none"
       THEN Complete("send_cmd", Exc(res.exc, ""), NoRet)
       ELSE IF res.list
       THEN \* res[at.AT_TYPE_KEY] on a list
            Complete("send_cmd", Exc("TypeError", ""), NoRet)
       ELSE IF res.val.type = AT_TYPE_VALUE_RESPONSE
       THEN IF IsTerminal(res.val)
            THEN Complete("send_cmd", NoExc, [res |-> res.val, result |-> result])
            ELSE result' = AppendResult(result, res.val) /\ NextRead
       ELSE UNCHANGED result /\ NextRead

\* send_cmd: the body of the loop, with the line _read returned
HandleLine(line) ==
    IF line = <<>>
    THEN Complete("send_cmd", TimedOut, NoRet) /\ UNCHANGED decoded
    ELSE HandleParsed(line, parse_string(line))

\* _read: self._rx_q.get(block, timeout_s) returns an item
Chat_read_get ==
    /\ c_pc = "get"
    /\ rx_q # <<>>
    /\ rx_q' = Tail(rx_q)
    /\ IF Head(rx_q).k = "str"
       THEN HandleLine(Head(rx_q).v)
       ELSE /\ Complete("send_cmd", ChatError(Head(rx_q).v.msg), NoRet)
            /\ UNCHANGED decoded
    /\ UNCHANGED codecVars
    /\ UNCHANGED <<port_present, chat_closed, tx_q, stop, thread_closed>>
    /\ UNCHANGED threadVars

\* time passes while the get is blocked on the empty queue
Tick ==
    /\ c_pc = "get"
    /\ rx_q = <<>>
    /\ waited < timeout_s
    /\ waited' = waited + 1
    /\ elapsed' = elapsed + 1
    /\ UNCHANGED codecVars
    /\ UNCHANGED <<port_present, c_pc, chat_closed, rx_q, tx_q, seq, timeout_s,
                   result, decoded, call, ops, ret, stop, thread_closed>>
    /\ UNCHANGED threadVars

\* a get whose timeout also tells the thread to stop
Chat_read_timeout_Stopping ==
    /\ c_pc = "get"
    /\ rx_q = <<>>
    /\ waited = timeout_s
    /\ Complete("send_cmd", QueueEmpty, NoRet)
    /\ stop' = TRUE
    /\ UNCHANGED codecVars
    /\ UNCHANGED <<port_present, chat_closed, thread_closed, rx_q, tx_q, decoded>>
    /\ UNCHANGED threadVars

\* a get whose timeout also closes the session
Chat_read_timeout_Closing ==
    /\ c_pc = "get"
    /\ rx_q = <<>>
    /\ waited = timeout_s
    /\ Complete("send_cmd", QueueEmpty, NoRet)
    /\ CloseEffects
    /\ UNCHANGED codecVars
    /\ UNCHANGED <<port_present, rx_q, tx_q, decoded>>
    /\ UNCHANGED threadVars

\* _read: the get's timeout ends on the empty queue: queue.Empty
Chat_read_timeout ==
    /\ c_pc = "get"
    /\ rx_q = <<>>
    /\ waited = timeout_s
    /\ Complete("send_cmd", QueueEmpty, NoRet)
    /\ UNCHANGED codecVars
    /\ UNCHANGED <<port_present, chat_closed, rx_q, tx_q, decoded, stop, thread_closed>>
    /\ UNCHANGED threadVars

\* ---- the thread: ChatThread ---------------------------------------------

\* str.encode() and bytes.decode(): the characters of the model are ASCII,
\* one byte each, written as the character
Encode(s) == s
Decode(b) == b

\* a _term_and_encode that appends the terminator without looking
_term_and_encode_Always(item) == Encode(item.v \o CR_LF)

\* ChatThread._term_and_encode
_term_and_encode(item) ==
    IF item.k = "str"
    THEN IF EndsWith(item.v, CR_LF) THEN Encode(item.v) ELSE Encode(item.v \o CR_LF)
    ELSE IF EndsWith(item.v, CR_LF) THEN item.v ELSE item.v \o CR_LF

\* a thread whose serial.Serial(port) succeeds whatever the port
Thread_open_Always ==
    /\ t_pc = "open"
    /\ ser_open' = TRUE
    /\ t_pc' = "loop"
    /\ UNCHANGED codecVars
    /\ UNCHANGED <<port_present, rx_q, tx_q, stop, thread_closed, err, escaped,
                   wire, rx_log, after_close>>
    /\ UNCHANGED callerVars

\* run: serial.Serial(port, baudrate, timeout) at the head of the with block
Thread_open ==
    /\ t_pc = "open"
    /\ IF port_present
       THEN /\ ser_open' = TRUE
            /\ t_pc' = "loop"
            /\ UNCHANGED err
       ELSE /\ \E e \in OpenFaults : err' = e
            /\ t_pc' = "except"
            /\ UNCHANGED ser_open
    /\ UNCHANGED codecVars
    /\ UNCHANGED <<port_present, rx_q, tx_q, stop, thread_closed, escaped, wire, rx_log,
                   after_close>>
    /\ UNCHANGED callerVars

\* a loop that makes one more pass after the first read that follows close()
Thread_loop_Late ==
    /\ t_pc = "loop"
    /\ IF stop /\ after_close.reads # 1
       THEN /\ ser_open' = FALSE
            /\ t_pc' = "finally"
       ELSE /\ t_pc' = "drain"
            /\ UNCHANGED ser_open
    /\ UNCHANGED codecVars
    /\ UNCHANGED <<port_present, rx_q, tx_q, stop, thread_closed, err, escaped,
                   wire, rx_log, after_close>>
    /\ UNCHANGED callerVars

\* run: while not self._stop.is_set(); leaving the loop leaves the with block
Thread_loop ==
    /\ t_pc = "loop"
    /\ IF stop
       THEN /\ ser_open' = FALSE
            /\ t_pc' = "finally"
       ELSE /\ t_pc' = "drain"
            /\ UNCHANGED ser_open
    /\ UNCHANGED codecVars
    /\ UNCHANGED <<port_present, rx_q, tx_q, stop, thread_closed, err, escaped,
                   wire, rx_log, after_close>>
    /\ UNCHANGED callerVars

\* run: while not self._tx_q.empty(): one get and one ser.write, which
\* returns or raises
Thread_drain ==
    /\ t_pc = "drain"
    /\ IF tx_q = <<>>
       THEN /\ t_pc' = "readline"
            /\ UNCHANGED <<tx_q, wire, err, ser_open, after_close>>
       ELSE /\ tx_q' = Tail(tx_q)
            /\ after_close' = WriteCounted(after_close)
            /\ \/ /\ wire' = Append(wire, _term_and_encode(Head(tx_q)))
                  /\ UNCHANGED <<t_pc, err, ser_open>>
               \/ /\ err' = IoFault
                  /\ ser_open' = FALSE
                  /\ t_pc' = "except"
                  /\ UNCHANGED wire
    /\ UNCHANGED codecVars
    /\ UNCHANGED <<port_present, rx_q, stop, thread_closed, escaped, rx_log>>
    /\ UNCHANGED callerVars

\* run: line = ser.readline() and the put of the decoded line
Thread_readline ==
    /\ t_pc = "readline"
    /\ after_close' = ReadCounted(after_close)
    /\ \/ \E line \in ReadResults :
            /\ line \in Lines => Len(rx_log) < MaxLines
            /\ IF line # <<>> /\ line # NULL_BYTE
               THEN IF Decodable(line)
                    THEN /\ rx_q' = Append(rx_q, StrItem(Decode(line)))
                         /\ rx_log' = Append(rx_log, Decode(line))
                         /\ t_pc' = "loop"
                         /\ UNCHANGED <<escaped, ser_open>>
                    ELSE \* UnicodeDecodeError: no except clause takes it
                         /\ escaped' = TRUE
                         /\ ser_open' = FALSE
                         /\ t_pc' = "finally"
                         /\ UNCHANGED <<rx_q, rx_log>>
               ELSE /\ t_pc' = "loop"
                    /\ UNCHANGED <<rx_q, rx_log, escaped, ser_open>>
            /\ UNCHANGED err
       \/ /\ err' = IoFault
          /\ ser_open' = FALSE
          /\ t_pc' = "except"
          /\ UNCHANGED <<rx_q, rx_log, escaped>>
    /\ UNCHANGED codecVars
    /\ UNCHANGED <<port_present, tx_q, stop, thread_closed, wire>>
    /\ UNCHANGED callerVars

\* an except clause that marks the thread closed before it puts the fault
Thread_except_CloseFirst ==
    /\ t_pc = "except"
    /\ IF thread_closed
       THEN /\ rx_q' = Append(rx_q, ExcItem(err))
            /\ t_pc' = "finally"
            /\ UNCHANGED <<stop, thread_closed>>
       ELSE /\ stop' = TRUE
            /\ thread_closed' = TRUE
            /\ UNCHANGED <<rx_q, t_pc>>
    /\ UNCHANGED codecVars
    /\ UNCHANGED <<port_present, tx_q, err, escaped, ser_open,
                   wire, rx_log, after_close>>
    /\ UNCHANGED callerVars

\* run: except FileNotFoundError / serial.SerialException: self._rx_q.put(err)
Thread_except ==
    /\ t_pc = "except"
    /\ rx_q' = Append(rx_q, ExcItem(err))
    /\ t_pc' = "finally"
    /\ UNCHANGED codecVars
    /\ UNCHANGED <<port_present, tx_q, stop, thread_closed, err, escaped, ser_open,
                   wire, rx_log, after_close>>
    /\ UNCHANGED callerVars

\* run: finally: self.close(), that is ChatThread.close
Thread_finally ==
    /\ t_pc = "finally"
    /\ stop' = TRUE
    /\ thread_closed' = TRUE
    /\ t_pc' = "done"
    /\ UNCHANGED codecVars
    /\ UNCHANGED <<port_present, rx_q, tx_q, err, escaped, ser_open, wire, rx_log,
                   after_close>>
    /\ UNCHANGED callerVars

Next ==
    \/ Chat_init
    \/ Chat_send_cmd
    \/ Chat_write
    \/ Chat_read
    \/ Chat_read_get
    \/ Tick
    \/ Chat_read_timeout
    \/ Chat_close
    \/ Thread_open
    \/ Thread_loop
    \/ Thread_drain
    \/ Thread_readline
    \/ Thread_except
    \/ Thread_finally

Spec == Init /\ [][Next]_vars

(***************************************************************************)
(* A session whose modem has already sent its lines, echoes of commands    *)
(* among them, when the caller begins.                                     *)
(***************************************************************************)
\* the echo of a compound command
LineCompound == <<"A", "T", "+", "C", "G", "S", "N", ";", "+", "C", "G", "M", "I", CR, LF>>

\* what the modem has sent: echoes and responses
EchoLines == {LineOK, LineData, LineEcho, LineCompound}

\* Chat(port) constructed, the port open, the thread in its loop with
\* MaxLines lines read and put on rx_q
ReceivedInit ==
    /\ port_present = TRUE
    /\ c_pc = "idle"
    /\ chat_closed = FALSE
    /\ rx_log \in [1..MaxLines -> EchoLines]
    /\ rx_q = [i \in 1..MaxLines |-> StrItem(rx_log[i])]
    /\ tx_q = <<>>
    /\ seq = <<>> /\ timeout_s = 0 /\ result = <<>>
    /\ waited = 0 /\ elapsed = 0
    /\ t_pc = "loop"
    /\ thread_closed = FALSE /\ stop = FALSE
    /\ err = NoExc /\ escaped = FALSE /\ ser_open = TRUE
    /\ wire = <<>> /\ decoded = <<>>
    /\ call = NoCall /\ ops = <<>> /\ ret = NoRet
    /\ after_close = NotClosed
    /\ CodecIdle

ReceivedNext ==
    \/ Chat_send_cmd
    \/ Chat_write
    \/ Chat_read
    \/ Chat_read_get
    \/ Tick
    \/ Chat_read_timeout
    \/ Chat_close
    \/ Thread_loop
    \/ Thread_drain
    \/ Thread_readline
    \/ Thread_except
    \/ Thread_finally

SpecReceived == ReceivedInit /\ [][ReceivedNext]_vars

(***************************************************************************)
(* ChatThread alone: the thread started on its two queues, with an owner   *)
(* that puts items on the outbound queue and calls ChatThread.close().     *)
(***************************************************************************)
\* items the owner puts on the outbound queue over one run
MaxPuts == 2

\* what is put on the outbound queue: str or bytes, with or without the
\* terminator
TxItems == {StrItem(<<"A", "T", "+", "C", "G", "S", "N">>),
            StrItem(<<"A", "T", "I", CR, LF>>),
            BytesItem(<<"A", "T">>),
            BytesItem(<<"A", "T", "Z", CR, LF>>)}

\* ChatThread(rx_queue, tx_queue, port).start(): run is about to begin
ThreadInit ==
    /\ port_present \in BOOLEAN
    /\ c_pc = "new"
    /\ chat_closed = FALSE
    /\ rx_q = <<>> /\ tx_q = <<>>
    /\ seq = <<>> /\ timeout_s = 0 /\ result = <<>>
    /\ waited = 0 /\ elapsed = 0
    /\ t_pc = "open"
    /\ thread_closed = FALSE /\ stop = FALSE
    /\ err = NoExc /\ escaped = FALSE /\ ser_open = FALSE
    /\ wire = <<>> /\ rx_log = <<>> /\ decoded = <<>>
    /\ call = NoCall /\ ops = <<>> /\ ret = NoRet
    /\ after_close = NotClosed
    /\ CodecIdle

\* the owner's tx_queue.put(item), as Chat._write makes it
Queue_put ==
    /\ Len(tx_q) + Len(wire) < MaxPuts
    /\ \E item \in TxItems : tx_q' = Append(tx_q, item)
    /\ UNCHANGED codecVars
    /\ UNCHANGED <<port_present, rx_q, stop, thread_closed>>
    /\ UNCHANGED threadVars
    /\ UNCHANGED callerVars

\* a close() that closes the port itself, on the owner's thread
ChatThread_close_Releasing ==
    /\ ~stop
    /\ stop' = TRUE
    /\ thread_closed' = TRUE
    /\ ser_open' = FALSE
    /\ after_close' = ClosedNow(tx_q)
    /\ UNCHANGED codecVars
    /\ UNCHANGED <<port_present, rx_q, tx_q>>
    /\ UNCHANGED <<t_pc, err, escaped, wire, rx_log>>
    /\ UNCHANGED callerVars

\* ChatThread.close(), called by the owner
ChatThread_close ==
    /\ ~stop
    /\ stop' = TRUE
    /\ thread_closed' = TRUE
    /\ after_close' = ClosedNow(tx_q)
    /\ UNCHANGED codecVars
    /\ UNCHANGED <<port_present, rx_q, tx_q>>
    /\ UNCHANGED <<t_pc, err, escaped, ser_open, wire, rx_log>>
    /\ UNCHANGED callerVars

\* the steps of ChatThread.run
ThreadSteps ==
    \/ Thread_open
    \/ Thread_loop
    \/ Thread_drain
    \/ Thread_readline
    \/ Thread_except
    \/ Thread_finally

ThreadNext ==
    \/ Queue_put
    \/ ChatThread_close
    \/ Thread_open
    \/ Thread_loop
    \/ Thread_drain
    \/ Thread_readline
    \/ Thread_except
    \/ Thread_finally

\* the thread is scheduled, and every call it makes on the port returns
SpecThread == ThreadInit /\ [][ThreadNext]_vars /\ WF_vars(ThreadSteps)

(***************************************************************************)
(* at/at.py exercised alone: parse_string and encode_command applied to    *)
(* inputs drawn from bounded sets, with no Chat constructed.               *)
(***************************************************************************)
\* command names
NameC == <<"+", "C">>
NameX == <<"%", "X">>
CommandNames == {NameC, NameX}

\* the text of one parameter of a command line: ints, quoted strings, an
\* empty token, a token with a space before it, arrays
ParamTexts == {<<"1">>, <<"-", "7">>, <<" ", "1">>, <<>>,
               <<"\"", "a", "\"">>, <<"\"", "a", "=", "b", "\"">>,
               <<"(", "1", ",", "2", ")">>, <<"(", "\"", "a", "\"", ")">>}
\* parameter lists of one or two parameters
ParamListTexts ==
    ParamTexts \cup {a \o <<AT_PARAM_SEP>> \o b : a, b \in ParamTexts}

\* what follows the name: nothing, the READ or TEST mark, or '=' and params
SegmentTails ==
    {<<>>, AT_CMD_READ_IDENT, AT_CMD_TEST_IDENT}
        \cup {<<AT_CMD_SET_IDENT>> \o p : p \in ParamListTexts}
ShortTails == {<<>>, AT_CMD_READ_IDENT, <<AT_CMD_SET_IDENT, "1">>,
               <<AT_CMD_SET_IDENT, "\"", "a", "\"", ",", "(", "1", ",", "2", ")">>}

Segments == {n \o t : n \in CommandNames, t \in SegmentTails}
ShortSegments == {n \o t : n \in CommandNames, t \in ShortTails}

\* command lines of the grammar: AT, then one segment or two joined by ';'
CommandLines ==
    {AT_CMD_PREFIX \o g : g \in Segments}
        \cup {AT_CMD_PREFIX \o g \o <<AT_PARAM_CONCAT_SEP>> \o h : g, h \in ShortSegments}

\* the same lines as a terminal or a modem's echo gives them: blanks before,
\* a lower-case prefix, an end of line, a second '='
Blanks == {<<>>, <<" ">>}
RawSegments ==
    ShortSegments \cup {NameC \o <<AT_CMD_SET_IDENT, "1", AT_CMD_SET_IDENT, "2">>,
                        NameC \o <<AT_PARAM_CONCAT_SEP>> \o NameX
                              \o <<AT_CMD_SET_IDENT, "1">>}
RawCommandLines ==
    {b \o a \o g \o e : b \in Blanks, a \in {AT_CMD_PREFIX, <<"a", "t">>}, g \in RawSegments, e \in {<<>>, CR_LF}}

\* lines that begin with a sentinel
SentinelWords == {AT_RSP_OK, <<"o", "k">>, <<"O", "k">>,
                  AT_RSP_ERROR, <<"e", "r", "r", "o", "r">>, <<"E", "r", "r", "o", "r">>}
SentinelRests == {<<>>, CR_LF, <<"!">>, <<"S">>, <<" ", "1">>, <<":", " ", "1">>,
                  <<CR, LF, "O", "K">>}
SentinelLines == {b \o w \o r : b \in Blanks, w \in SentinelWords, r \in SentinelRests}

\* lines that begin with '+' or '%'
Labels == {NameC, NameX, <<"+", "C", "M", "E", " ", "E", "R", "R", "O", "R">>,
           <<"+", "c", "m", "e", " ", "e", "r", "r", "o", "r">>,
           <<"+", "C", " ">>}
LabelRests == {<<>>, <<":">>, <<":", " ", "1">>, <<":", "1", ",", "\"", "a", "\"">>,
               <<":", " ", "1", ":", "2">>, <<":", " ", "\"", "a", ":", "b", "\"">>,
               <<":", " ", "(", "1", ",", "2", ")">>, <<":", " ", "5", CR, LF>>,
               <<":", " ", "(", "1", ",", "(", "2", ")", ")">>}
ResponseLines == {b \o l \o r : b \in Blanks, l \in Labels, r \in LabelRests}

\* lines of free text
TextLines == {<<"h", "i">>, <<"\"">>, <<"a", "\"", CR, LF>>, <<" ">>, <<>>,
              <<"N", "O", " ", "E", "R", "R", "O", "R">>, <<"h", "i", ":", "1">>}

\* the params of a command: None, ints, strs, lists of those
ParamValues == {PNone, PInt(1), PInt(0 - 7), PStr(<<"a">>), PStr(<<>>),
                PStr(<<"a", " ", "b">>),
                PList(<<PInt(1), PInt(2)>>), PList(<<PStr(<<"a">>), PNone>>),
                PList(<<PNone>>), PList(<<>>)}
ParamSeqs == {<<>>} \cup {<<a>> : a \in ParamValues}
                    \cup {<<a, b>> : a, b \in ParamValues}

\* the dicts given to encode_command
SingleCommands ==
    {Command(n, AT_TYPE_VALUE_SET, ps) : n \in CommandNames, ps \in ParamSeqs}
        \cup {Command(n, t, <<>>) : n \in CommandNames \cup {<<"+", "c">>},
                                    t \in {AT_TYPE_VALUE_READ, AT_TYPE_VALUE_TEST}}
ShortCommands ==
    {Command(n, AT_TYPE_VALUE_SET, ps) : n \in CommandNames, ps \in {<<>>, <<PInt(1)>>}}
        \cup {Command(n, t, <<>>) : n \in CommandNames,
                                    t \in {AT_TYPE_VALUE_READ, AT_TYPE_VALUE_TEST}}
\* one dict (v holds it alone), or a list of one or two dicts
CodecCommands ==
    {[list |-> FALSE, v |-> <<c>>] : c \in SingleCommands}
        \cup {[list |-> TRUE, v |-> <<c>>] : c \in ShortCommands}
        \cup {[list |-> TRUE, v |-> <<c, d>>] : c, d \in ShortCommands}

\* the tokens of a parameter list: ints, a quoted string, an empty token,
\* and tokens that open or close an array, once or twice
ParamTokens == {<<"1">>, <<"\"", "a", "\"">>, <<>>, <<"(", "1">>, <<"2", ")">>,
                <<"(", "3", ")">>, <<"(", "(", "1">>, <<"2", ")", ")">>,
                <<"(">>, <<")">>, <<" ", "(", "4">>}
\* parameter lists of one to three tokens
ParamLists ==
    ParamTokens
        \cup {a \o <<AT_PARAM_SEP>> \o b : a, b \in ParamTokens}
        \cup {a \o <<AT_PARAM_SEP>> \o b \o <<AT_PARAM_SEP>> \o c : a, b, c \in ParamTokens}

\* the families of lines
LineKinds == {"command line", "raw line", "sentinel", "response", "text"}
LinesOfKind(k) ==
    IF k = "command line" THEN CommandLines
    ELSE IF k = "raw line" THEN RawCommandLines
    ELSE IF k = "sentinel" THEN SentinelLines
    ELSE IF k = "response" THEN ResponseLines
    ELSE TextLines

\* dicts whose type is no kind of command, alone and in lists
BadCommands ==
    {[list |-> FALSE, v |-> <<Command(NameC, AT_TYPE_VALUE_RESPONSE, <<>>)>>],
     [list |-> TRUE, v |-> <<Command(NameC, AT_TYPE_VALUE_SET, <<PInt(1)>>),
                             Command(NameX, "EXEC", <<>>)>>],
     [list |-> TRUE, v |-> <<Command(NameC, "EXEC", <<>>),
                             Command(NameX, AT_TYPE_VALUE_READ, <<>>)>>]}

\* the argument of encode_command, and what parse_string has to return to
\* give it back
CmdDicts(c) == IF c.list THEN c.v ELSE c.v[1]
ParsedBack(c) == IF c.list THEN ParsedList(c.v) ELSE ParsedOne(c.v[1])

\* one input chosen, no call made yet
CodecInit ==
    /\ port_present = FALSE
    /\ SessionInit
    /\ codec_pc = "start"
    /\ out_parsed = NotParsed /\ out_encoded = NotEncoded
    /\ out_params = NotEncoded
    /\ \/ /\ in_kind \in LineKinds
          /\ in_str \in LinesOfKind(in_kind)
          /\ in_cmd = NoCommand
       \/ /\ in_kind = "command"
          /\ in_cmd \in CodecCommands
          /\ in_str = <<>>
       \/ /\ in_kind = "bad command"
          /\ in_cmd \in BadCommands
          /\ in_str = <<>>
       \/ /\ in_kind = "params"
          /\ in_str \in ParamLists
          /\ in_cmd = NoCommand

\* parse_string gave a command or a list of commands
IsCommands(r) ==
    IF r.exc # "none" THEN FALSE
    ELSE IF r.list THEN TRUE
    ELSE r.val.type # AT_TYPE_VALUE_RESPONSE

\* parse_string(in_str)
Codec_parse ==
    /\ codec_pc = "start" /\ in_kind \in LineKinds
    /\ out_parsed' = parse_string(in_str)
    /\ codec_pc' = "parsed"
    /\ UNCHANGED <<in_kind, in_str, in_cmd, out_encoded, out_params>>
    /\ UNCHANGED sessionVars

\* encode_command of what parse_string returned, when it is a command
Codec_encode_parsed ==
    /\ codec_pc = "parsed" /\ IsCommands(out_parsed)
    /\ out_encoded' = encode_command(out_parsed.val, out_parsed.list)
    /\ codec_pc' = "done"
    /\ UNCHANGED <<in_kind, in_str, in_cmd, out_parsed, out_params>>
    /\ UNCHANGED sessionVars

\* encode_command(in_cmd)
Codec_encode ==
    /\ codec_pc = "start" /\ in_kind \in {"command", "bad command"}
    /\ out_encoded' = encode_command(CmdDicts(in_cmd), in_cmd.list)
    /\ codec_pc' = "encoded"
    /\ UNCHANGED <<in_kind, in_str, in_cmd, out_parsed, out_params>>
    /\ UNCHANGED sessionVars

\* parse_string of what encode_command returned
Codec_parse_encoded ==
    /\ codec_pc = "encoded" /\ out_encoded.exc = "none"
    /\ out_parsed' = parse_string(out_encoded.val)
    /\ codec_pc' = "done"
    /\ UNCHANGED <<in_kind, in_str, in_cmd, out_encoded, out_params>>
    /\ UNCHANGED sessionVars

\* _parse_params(in_str)
Codec_parse_params ==
    /\ codec_pc = "start" /\ in_kind = "params"
    /\ out_params' = _parse_params(in_str)
    /\ codec_pc' = "done"
    /\ UNCHANGED <<in_kind, in_str, in_cmd, out_parsed, out_encoded>>
    /\ UNCHANGED sessionVars

CodecNext ==
    \/ Codec_parse
    \/ Codec_encode_parsed
    \/ Codec_encode
    \/ Codec_parse_encoded
    \/ Codec_parse_params

SpecCodec == CodecInit /\ [][CodecNext]_vars

(***************************************************************************)
(* Properties.                                                             *)
(***************************************************************************)

\* the caller is back in its own code, after at least one operation
Returned0 == c_pc = "idle" /\ ops # <<>>
LastOp == ops[Len(ops)]

\* the last operation was a send_cmd that returned / that raised
SendReturned == Returned0 /\ LastOp.op = "send_cmd" /\ LastOp.exc = NoExc
SendRaised == Returned0 /\ LastOp.op = "send_cmd" /\ LastOp.exc # NoExc

\* the number of lines the caller has taken from rx_q
Taken == Len(rx_log) - Len(SelectSeq(rx_q, LAMBDA it : it.k = "str"))

\* a parsed line is a Response
IsResponse(p) == p.exc = "none" /\ ~p.list /\ p.val.type = AT_TYPE_VALUE_RESPONSE

\* a decoded line gave a Response that ends a command: label OK, or error
TerminalLine(d) ==
    /\ IsResponse(d.res)
    /\ d.res.val.response = AT_RSP_OK \/ d.res.val.error

\* a decoded line gave a Response that does not end a command
IntermediateLine(d) == IsResponse(d.res) /\ ~TerminalLine(d)

\* the intermediate Responses of a sequence of decoded lines, in order
RECURSIVE Intermediates(_)
Intermediates(ds) ==
    IF ds = <<>> THEN <<>>
    ELSE (IF IntermediateLine(Head(ds)) THEN <<Head(ds).res.val>> ELSE <<>>)
         \o Intermediates(Tail(ds))

\* the lines of a sequence of decoded lines
RECURSIVE LinesOf(_)
LinesOf(ds) == IF ds = <<>> THEN <<>> ELSE <<Head(ds).line>> \o LinesOf(Tail(ds))

\* the lines the last operation passed to parse_string
CallLines == SubSeq(decoded, LastOp.start + 1, Len(decoded))

\* C1: a send_cmd that returns has decoded a run of lines of the inbound
\* stream, in the order the thread read them; the last of them is the first
\* that decodes to a terminal Response, which is the response returned, and
\* the list returned holds the intermediate Responses of the lines before
\* it, in that order.  A running send_cmd has decoded no terminal line: it
\* reads nothing past one.
C1_ReturnsAtFirstTerminal ==
    /\ SendReturned =>
         /\ CallLines # <<>>
         /\ LinesOf(CallLines) = SubSeq(rx_log, Taken - Len(CallLines) + 1, Taken)
         /\ TerminalLine(CallLines[Len(CallLines)])
         /\ ret.res = CallLines[Len(CallLines)].res.val
         /\ \A i \in 1..(Len(CallLines) - 1) : ~TerminalLine(CallLines[i])
         /\ ret.result = Intermediates(SubSeq(CallLines, 1, Len(CallLines) - 1))
    /\ call.active =>
         \A i \in (call.start + 1)..Len(decoded) : ~TerminalLine(decoded[i])

\* a send_cmd returned a terminal response after two intermediate ones
C1_Witness ==
    /\ SendReturned
    /\ Len(ret.result) >= 2
    /\ ret.result[1] # ret.result[2]

(***************************************************************************)
(* The thread's end, seen from the caller.                                 *)
(***************************************************************************)

\* the thread has ended, having caught a fault of the transport
FaultStopped == t_pc = "done" /\ err # NoExc

\* the operations that are send_cmd calls
SendOps == {i \in 1..Len(ops) : ops[i].op = "send_cmd"}

\* the send_cmd calls begun after the thread ended, and those that were
\* running when it ended
AfterStop == {i \in SendOps : ops[i].t0}
InFlight == {i \in SendOps : ~ops[i].t0 /\ ops[i].t1}

\* a close() returned before operation i / before now
ClosedBefore(i) == \E j \in 1..(i - 1) : ops[j].op = "close" /\ ops[j].exc = NoExc
ClosedByClose == ClosedBefore(Len(ops) + 1)

\* the transport, as the thread uses it
transport == <<ser_open, wire, rx_log>>

\* the operation that ends in this step
Ends(op) == Len(ops') = Len(ops) + 1 /\ ops'[Len(ops')].op = op

\* C2: once the thread has ended on a fault of the transport, every
\* send_cmd begun afterwards raises; the first of them raises that fault or
\* 'Thread closed unexpectedly.', unless the call that was running when the
\* thread ended has raised the latter (or the caller has closed the session
\* itself) and it raises 'Port is closed.'; and the thread, ended, holds no
\* port and writes and reads nothing more.
C2_FaultSurfaces ==
    [][/\ FaultStopped' =>
            /\ \A i \in AfterStop' : ops'[i].exc # NoExc
            /\ \A i \in AfterStop' :
                 (\A j \in AfterStop' : i <= j) =>
                    \/ ops'[i].exc \in {err', ThreadClosed}
                    \/ /\ ops'[i].exc = PortClosed
                       /\ \/ ClosedBefore(i)'
                          \/ \E j \in InFlight' : j < i /\ ops'[j].exc = ThreadClosed
            /\ ~ser_open'
       /\ t_pc = "done" => UNCHANGED <<t_pc, transport>>]_vars

\* after a fault, the first send_cmd raised the fault and the second the
\* session-closed error
C2_Witness ==
    /\ FaultStopped
    /\ Len(ops) >= 2
    /\ ops[1].op = "send_cmd" /\ ops[1].t0 /\ ops[1].exc = err
    /\ ops[2].op = "send_cmd" /\ ops[2].exc = ThreadClosed
    /\ err = IoFault

\* a send_cmd raised because the thread has ended: the fault the thread
\* caught (as it is, or as the text of a ChatError), or 'Thread closed
\* unexpectedly.'
RaisedThreadEnd ==
    /\ SendRaised
    /\ \/ LastOp.exc = ThreadClosed
       \/ err # NoExc /\ LastOp.exc \in {err, ChatError(err.msg)}

\* C3: when send_cmd has raised because the thread has ended, Chat._closed
\* is True.
C3_ClosedWhenThreadEnded == RaisedThreadEnd => chat_closed

\* C4: when send_cmd has raised because the thread has ended, every line
\* the thread put on rx_q has been passed to parse_string, in order.
C4_BufferedLinesDecoded == RaisedThreadEnd => LinesOf(decoded) = rx_log

\* C5: a running send_cmd has been blocked for no longer than its timeout_s.
C5_BlockedWithinBudget == call.active => elapsed <= timeout_s

\* C6: a send_cmd on an open session with a running thread, that ends when
\* its timeout has passed with no line put on rx_q since it began, raises
\* ChatError('Command timed out').
C6_TimeoutError ==
    [][(/\ c_pc = "get" /\ rx_q = <<>> /\ waited = timeout_s
        /\ ~chat_closed /\ ~thread_closed /\ t_pc \in {"loop", "drain", "readline"}
        /\ Len(decoded) = call.start
        /\ Ends("send_cmd"))
       => ops'[Len(ops')].exc = TimedOut]_vars

\* C7: a send_cmd made after a close() that returned ends at once, raising
\* 'Port is closed.', with both queues and the thread left as they were.
C7_SendAfterClose ==
    [][(/\ c_pc = "idle" /\ ClosedByClose
        /\ c_pc' # "idle" \/ Ends("send_cmd"))
       => /\ c_pc' = "idle"
          /\ ops'[Len(ops')].exc = PortClosed
          /\ UNCHANGED <<tx_q, rx_q, t_pc, transport>>]_vars

\* a send_cmd raised 'Port is closed.' after a close() that returned
C7_Witness ==
    /\ SendRaised
    /\ LastOp.exc = PortClosed
    /\ ClosedBefore(Len(ops))
    /\ ser_open

\* C8: a close() on a session whose _closed is False returns with _closed
\* True and the thread's stop Event set; a close() on a session whose
\* _closed is True raises 'Port is already closed.' and changes nothing.
C8_Close ==
    [][Ends("close") =>
         IF chat_closed
         THEN /\ ops'[Len(ops')].exc = AlreadyClosed
              /\ UNCHANGED <<chat_closed, stop, thread_closed, rx_q, tx_q, t_pc,
                             transport>>
         ELSE /\ ops'[Len(ops')].exc = NoExc
              /\ chat_closed' /\ stop']_vars

\* a close() raised on a session that no close() had closed
C8_Witness ==
    /\ Returned0
    /\ LastOp.op = "close" /\ LastOp.exc = AlreadyClosed
    /\ ~ClosedByClose

\* C9: Chat._closed, once True, stays True; it becomes True only in a
\* close() that returns, or in _read or _write when they find that the
\* thread has ended.
C9_ClosedOneWay ==
    [][/\ chat_closed => chat_closed'
       /\ (~chat_closed /\ chat_closed') =>
            \/ c_pc = "idle" /\ Ends("close") /\ ops'[Len(ops')].exc = NoExc
            \/ c_pc \in {"write", "read"} /\ thread_closed]_vars

\* the session was closed with no close() called, and operations followed
C9_Witness ==
    /\ chat_closed
    /\ ~ClosedByClose
    /\ Returned0 /\ LastOp.exc = PortClosed

C11_OneCommandQueued ==
    [][(c_pc \notin {"read", "get"} /\ c_pc' \in {"read", "get"})
       => c_pc = "write" /\ seq # <<>> /\ tx_q' = Append(tx_q, seq)]_vars

\* the get of the running send_cmd ends now by its timeout
TimesOut ==
    /\ c_pc = "get" /\ rx_q = <<>> /\ waited = timeout_s
    /\ Ends("send_cmd")

\* the operation before the running one was a send_cmd ended by the timeout
\* of its get
TimedOutBefore ==
    /\ ops # <<>>
    /\ LastOp.op = "send_cmd" /\ LastOp.exc = QueueEmpty

\* C12: the step in which a send_cmd ends by the timeout of its get changes
\* neither Chat._closed nor the thread's flags, position, port or queues;
\* with the thread running, the session is then open and the stop Event
\* unset.  The send_cmd that follows on the open session does not end at
\* its first check, and its _write, with the thread running, puts the
\* command on tx_q.
C12_TimeoutLeavesOpen ==
    [][/\ TimesOut =>
            /\ UNCHANGED <<chat_closed, stop, thread_closed, t_pc, transport,
                           rx_q, tx_q>>
            /\ ~thread_closed => ~chat_closed' /\ ~stop'
       /\ (TimedOutBefore /\ ~chat_closed /\ c_pc = "idle") => ~Ends("send_cmd")
       /\ (TimedOutBefore /\ ~chat_closed /\ ~thread_closed
             /\ c_pc = "write" /\ c_pc' # "write")
            => c_pc' = "read" /\ tx_q' = Append(tx_q, seq)]_vars

\* after a send_cmd that timed out, with the port held, a second send_cmd
\* has put its command on tx_q
C12_Witness ==
    /\ TimedOutBefore
    /\ call.active /\ c_pc = "read"
    /\ ~chat_closed /\ ~stop /\ ser_open
    /\ Len(wire) + Len(tx_q) = 2

\* the last operation returned, and the one before it was a send_cmd ended
\* by the timeout of its get
ReturnedAfterTimeout ==
    /\ SendReturned
    /\ Len(ops) >= 2
    /\ ops[Len(ops) - 1].op = "send_cmd" /\ ops[Len(ops) - 1].exc = QueueEmpty

\* C13: a send_cmd B that returns after a send_cmd A ended by timeout
\* returns the first terminal Response among the lines the thread queued
\* after the lines A had taken, whatever command they answer: B decodes
\* exactly those lines, from the first on, up to that terminal line.
C13_LateTerminalReturned ==
    ReturnedAfterTimeout =>
        /\ CallLines # <<>>
        /\ LastOp.start + Len(CallLines) <= Len(rx_log)
        /\ LinesOf(CallLines)
             = SubSeq(rx_log, LastOp.start + 1, LastOp.start + Len(CallLines))
        /\ TerminalLine(CallLines[Len(CallLines)])
        /\ \A i \in 1..(Len(CallLines) - 1) : ~TerminalLine(CallLines[i])
        /\ ret.res = CallLines[Len(CallLines)].res.val

\* B returned a terminal Response while its own command was still on tx_q,
\* not yet written to the port
C13_Witness ==
    /\ ReturnedAfterTimeout
    /\ tx_q # <<>>
    /\ Len(wire) = 1

\* C14: a send_cmd that raises for the fault the thread caught raises that
\* exception itself, not a ChatError made of its text.
C14_FaultVerbatim ==
    \A i \in SendOps :
        (err # NoExc /\ ops[i].exc \in {err, ChatError(err.msg)}) => ops[i].exc = err

(***************************************************************************)
(* Properties of the codec alone, checked under SpecCodec.                 *)
(***************************************************************************)
\* parse_string was applied to a line of family k
ParsedKind(k) == in_kind = k /\ codec_pc \in {"parsed", "done"}

\* C15: a command line of the grammar (at most one level of array, no quote
\* inside a string) parses to a command, and encoding that command gives
\* the line back: encode_command(parse_string(s)) = s.
C15_LineRoundTrip ==
    in_kind = "command line" =>
        /\ codec_pc = "parsed" => IsCommands(out_parsed)
        /\ codec_pc = "done" => out_encoded = Returned(in_str)

\* two outcomes of parse_string are equal (a dict is never equal to a list)
SameParsed(r, e) ==
    IF r.exc # e.exc \/ r.list # e.list THEN FALSE
    ELSE IF r.exc # "none" THEN TRUE
    ELSE r.val = e.val

\* C16: a SET, READ or TEST command, or a non-empty list of them, whose
\* params are None, ints, strs without quote, comma, parenthesis, ';' or
\* '=', or lists of such, is encoded to a line that parses back to the
\* same command: parse_string(encode_command(c)) = c.
C16_CommandRoundTrip ==
    in_kind = "command" =>
        /\ codec_pc = "encoded" => out_encoded.exc = "none"
        /\ codec_pc = "done" => SameParsed(out_parsed, ParsedBack(in_cmd))

\* a line trimmed and case-folded
Folded(s) == Upper(Strip(s, Whitespace))

\* parse_string was applied to the line in_str
LineParsed == in_kind \in LineKinds /\ codec_pc \in {"parsed", "done"}

\* parse_string returned one response
IsResponseDict(r) ==
    IF r.exc # "none" \/ r.list THEN FALSE
    ELSE r.val.type = AT_TYPE_VALUE_RESPONSE

\* what the sentinel rule asks of the outcome r for the folded line t
SentinelOutcome(t, r) ==
    /\ t = AT_RSP_OK => SameParsed(r, ParsedOne(Response(AT_RSP_OK, FALSE, <<>>)))
    /\ t = AT_RSP_ERROR => SameParsed(r, ParsedOne(Response(AT_RSP_ERROR, TRUE, <<>>)))
    /\ (StartsWith(t, AT_RSP_OK) /\ t # AT_RSP_OK) => r.exc = "ATError"
    /\ (StartsWith(t, AT_RSP_ERROR) /\ t # AT_RSP_ERROR) => r.exc = "ATError"

\* C17: a line that, trimmed and case-folded, is OK parses to the terminal
\* response OK with error false and no params; one that is ERROR parses to
\* the terminal response ERROR with error true and no params; a line that
\* begins with either sentinel and goes on is rejected with an ATError.
C17_Sentinels == LineParsed => SentinelOutcome(Folded(in_str), out_parsed)

\* lower-case ERROR between a blank and an end of line was parsed
C17_Witness ==
    /\ LineParsed
    /\ in_str = <<" ", "e", "r", "r", "o", "r", CR, LF>>
    /\ IsResponseDict(out_parsed)
    /\ out_parsed.val.error

\* C18: a response that parse_string returns has error true exactly when
\* its label is the sentinel ERROR or contains the text ERROR.
C18_ErrorFlag ==
    (LineParsed /\ IsResponseDict(out_parsed)) =>
        (out_parsed.val.error <=>
            \/ out_parsed.val.response = AT_RSP_ERROR
            \/ Contains(out_parsed.val.response, AT_RSP_ERROR))

\* a response whose label holds ERROR among other text was parsed
C18_Witness ==
    /\ LineParsed /\ IsResponseDict(out_parsed)
    /\ out_parsed.val.response # AT_RSP_ERROR
    /\ out_parsed.val.error

\* the place of the first c in s, the text before it and the text after it
HasChar(s, c) == \E k \in 1..Len(s) : s[k] = c
FirstIndex(s, c) == CHOOSE k \in 1..Len(s) : s[k] = c /\ \A j \in 1..(k - 1) : s[j] # c
Before(s, c) == SubSeq(s, 1, FirstIndex(s, c) - 1)
After(s, c) == SubSeq(s, FirstIndex(s, c) + 1, Len(s))

\* a line that begins with '+' or '%' and holds a ':'
IsLabelled(s) ==
    /\ Folded(s) # <<>>
    /\ Folded(s)[1] \in {AT_STD_PREFX, AT_PROP_PREFX}
    /\ HasChar(s, AT_RSP_SEP)

\* the outcome r is a response with the trimmed text before the first ':'
\* of s as its label and ps, the parse of the text after it, as its params
LabelOutcome(s, r, ps) ==
    IF ps.exc # "none" THEN r.exc = ps.exc
    ELSE /\ IsResponseDict(r)
         /\ r.val.response = Strip(Before(s, AT_RSP_SEP), Whitespace)
         /\ r.val.params = ps.val

\* C19: a line that begins with '+' or '%' and holds a ':' parses to a
\* response whose label is the trimmed text before the first ':' and whose
\* params are parsed from everything after that first ':', further ':'
\* included.
C19_LabelBeforeFirstColon ==
    (LineParsed /\ IsLabelled(in_str)) =>
        LabelOutcome(in_str, out_parsed, _parse_params(After(in_str, AT_RSP_SEP)))

\* an AT-prefixed line that is no READ and no TEST line
IsSetLine(s) ==
    /\ StartsWith(Folded(s), AT_CMD_PREFIX)
    /\ ~EndsWith(Folded(s), AT_CMD_READ_IDENT)

\* the segments of a line: the trimmed line without its prefix, split on ';'
SegmentsOf(s) ==
    Split(SubSeq(Strip(s, Whitespace), Len(AT_CMD_PREFIX) + 1,
                 Len(Strip(s, Whitespace))),
          AT_PARAM_CONCAT_SEP)

\* the name of a segment and its params: split at the first '=', if any
SegmentName(g) == IF HasChar(g, AT_CMD_SET_IDENT) THEN Before(g, AT_CMD_SET_IDENT) ELSE g
SegmentParams(g) ==
    IF HasChar(g, AT_CMD_SET_IDENT) THEN _parse_params(After(g, AT_CMD_SET_IDENT))
    ELSE Returned(<<>>)
SegmentCommand(g) == Command(SegmentName(g), AT_TYPE_VALUE_SET, SegmentParams(g).val)

\* the outcome r is the SET commands of the segments gs, in order: one dict
\* for one segment, a list for more
SetOutcome(gs, r) ==
    IF \E i \in 1..Len(gs) : SegmentParams(gs[i]).exc # "none" THEN r.exc # "none"
    ELSE IF Len(gs) = 1 THEN SameParsed(r, ParsedOne(SegmentCommand(gs[1])))
    ELSE SameParsed(r, ParsedList([i \in 1..Len(gs) |-> SegmentCommand(gs[i])]))

\* C20: an AT-prefixed line that is no READ and no TEST line, split on ';'
\* into n segments, parses to n SET commands in the segments' order (one
\* command for n = 1, a list for n > 1); the names carry no AT prefix; a
\* segment with '=' is split at its first '=' into the name and the text of
\* the params, a segment without '=' has no params.
C20_SetSegments ==
    (LineParsed /\ IsSetLine(in_str)) => SetOutcome(SegmentsOf(in_str), out_parsed)

\* C21: parse_string on any line returns a value or fails with ATError,
\* never with another kind of exception.
C21_OnlyCodecError == LineParsed => out_parsed.exc \in {"none", "ATError"}

\* _parse_params was applied to the parameter list in_str
ParamsParsed == in_kind = "params" /\ codec_pc = "done"

\* the largest number of arrays open at once in s from character i on, d
\* being open before it and m the largest number so far
RECURSIVE MaxOpen(_, _, _, _)
MaxOpen(s, i, d, m) ==
    IF i > Len(s) THEN m
    ELSE IF s[i] = AT_CMD_ARRAY_START
         THEN MaxOpen(s, i + 1, d + 1, IF d + 1 > m THEN d + 1 ELSE m)
    ELSE IF s[i] = AT_CMD_ARRAY_END
         THEN MaxOpen(s, i + 1, IF d > 0 THEN d - 1 ELSE 0, m)
    ELSE MaxOpen(s, i + 1, d, m)

\* C22: a parameter list in which an array is opened while another is
\* still open is rejected with ATError, also when the two opening
\* parentheses are in the same token.
C22_NestedArrayRejected ==
    (ParamsParsed /\ MaxOpen(in_str, 1, 0, 0) >= 2) => out_params.exc = "ATError"

\* encode_command was applied to the command in_cmd
CommandEncoded == in_kind \in {"command", "bad command"} /\ codec_pc \in {"encoded", "done"}

\* the kinds of command
CommandTypes == {AT_TYPE_VALUE_SET, AT_TYPE_VALUE_READ, AT_TYPE_VALUE_TEST}

\* what one command contributes to the line
CommandText(c) ==
    c.cmd \o (IF c.type = AT_TYPE_VALUE_SET
              THEN IF c.params = <<>> THEN <<>>
                   ELSE <<AT_CMD_SET_IDENT>> \o _encode_params(c.params)
              ELSE IF c.type = AT_TYPE_VALUE_READ THEN <<"?">>
              ELSE <<"=", "?">>)

\* one AT, then the commands cs in order, joined by ';'
LineOf(cs) ==
    <<"A", "T">> \o Join([i \in 1..Len(cs) |-> CommandText(cs[i])], <<";">>)

\* C23: for a non-empty sequence of commands encode_command returns one
\* "AT" followed by the commands in order joined by ';', each its name
\* and '=' and the encoded params (SET with params), nothing more (SET
\* without params), '?' (READ) or '=?' (TEST); when a command is of another
\* kind the call fails with ATError.
C23_EncodedLine ==
    CommandEncoded =>
        IF \A i \in 1..Len(in_cmd.v) : in_cmd.v[i].type \in CommandTypes
        THEN out_encoded = Returned(LineOf(in_cmd.v))
        ELSE out_encoded.exc = "ATError"

\* a list of a SET command with params and a READ command was encoded
C23_Witness ==
    /\ CommandEncoded /\ in_cmd.list /\ Len(in_cmd.v) = 2
    /\ in_cmd.v[1].type = AT_TYPE_VALUE_SET /\ in_cmd.v[1].params # <<>>
    /\ in_cmd.v[2].type = AT_TYPE_VALUE_READ
    /\ out_encoded.exc = "none"

\* s without its first n and its last m characters
Inner(s, n, m) == SubSeq(s, n + 1, Len(s) - m)

\* the READ or TEST command of the trimmed line t: its kind by its end, its
\* name t without the two characters of the prefix and without the mark
MarkedCommand(t) ==
    IF EndsWith(t, <<"=", "?">>)
    THEN Command(Inner(t, 2, 2), AT_TYPE_VALUE_TEST, <<>>)
    ELSE Command(Inner(t, 2, 1), AT_TYPE_VALUE_READ, <<>>)

\* an AT-prefixed line that, trimmed, ends in '?'
IsMarkedLine(s) ==
    /\ StartsWith(Folded(s), AT_CMD_PREFIX)
    /\ EndsWith(Folded(s), AT_CMD_READ_IDENT)

\* C24: on the trimmed line, a line ending in "=?" parses to a TEST
\* command and a line ending in '?' but not in "=?" to a READ command, with
\* no params and with the name equal to the line without its leading AT
\* (in any case) and without the trailing mark.
C24_ReadAndTest ==
    (LineParsed /\ IsMarkedLine(in_str)) =>
        SameParsed(out_parsed, ParsedOne(MarkedCommand(Strip(in_str, Whitespace))))

(***************************************************************************)
(* Properties of the thread's shutdown and of its use of the port.         *)
(***************************************************************************)
\* close() set the stop Event while no command waited on tx_q (and no
\* send_cmd was running: close is called from the caller's code)
ClosedQuiet == after_close.set /\ ~after_close.queued

Releases == ser_open /\ ~ser_open'

\* a step of run that leaves the with block
LeavesWith ==
    /\ t_pc \in {"loop", "drain", "readline"}
    /\ t_pc' \in {"finally", "except"}
    /\ UNCHANGED <<stop, thread_closed>>

\* C26: once close() has set the stop flag the thread, being scheduled and
\* its port calls returning, eventually is out of its loop with the port
\* released; and every step that releases the port is a step of run leaving
\* its with block, never the step of close().
C26_ThreadReleases ==
    /\ after_close.set ~> (t_pc = "done" /\ ~ser_open)
    /\ [][Releases => LeavesWith]_vars

\* close() came while the port was open and in use, and the thread is out
C26_Witness ==
    /\ after_close.set
    /\ rx_log # <<>>
    /\ t_pc = "done" /\ ~ser_open
    /\ err = NoExc /\ ~escaped

\* run is over and its loop was not left through the test of the stop flag
EndedByFault == t_pc = "done" /\ (err # NoExc \/ escaped)

\* the lines the thread has queued, as items
LinesQueued == [i \in 1..Len(rx_log) |-> StrItem(rx_log[i])]

\* C27: when run is over for a reason other than a stop request, the inbound
\* queue holds the lines queued so far and then the fault as its last item,
\* the port is released and no exception has left the thread.
C27_FaultQueued ==
    EndedByFault =>
        /\ ~escaped
        /\ rx_q = Append(LinesQueued, ExcItem(err))
        /\ ~ser_open

\* the same for the faults that run catches
CaughtFaultQueued ==
    (t_pc = "done" /\ err # NoExc) =>
        /\ ~escaped
        /\ rx_q = Append(LinesQueued, ExcItem(err))
        /\ ~ser_open

\* payload p is item with its terminator: added when the item lacks it,
\* left alone when the item ends with it
TerminatedOnce(p, item) ==
    /\ EndsWith(p, CR_LF)
    /\ IF EndsWith(item.v, CR_LF) THEN p = item.v ELSE p = item.v \o CR_LF

\* the step writes the head of the outbound queue, and only that
WritesHead ==
    /\ tx_q # <<>>
    /\ tx_q' = Tail(tx_q)
    /\ Len(wire') = Len(wire) + 1
    /\ SubSeq(wire', 1, Len(wire)) = wire
    /\ TerminatedOnce(wire'[Len(wire')], Head(tx_q))

\* the step puts one item at the back of the outbound queue
PutsLast ==
    /\ Len(tx_q') = Len(tx_q) + 1
    /\ SubSeq(tx_q', 1, Len(tx_q)) = tx_q
    /\ wire' = wire

\* the step takes the head of the queue for a write that raises
WriteRaises ==
    /\ tx_q # <<>>
    /\ tx_q' = Tail(tx_q)
    /\ wire' = wire
    /\ err = NoExc /\ err' = IoFault

\* C28: the thread writes the outbound items in the order of their puts,
\* each once, each payload ending with its one CR LF: every write is of the
\* head of the queue, which it removes, with the terminator added when the
\* item (str or bytes) lacks it and not added again when it has it; the
\* queue changes only by a put at its back or by the write of its head (or
\* by the one write that raises and ends the loop).
C28_WritesInOrder ==
    [][/\ wire' # wire => WritesHead
       /\ tx_q' # tx_q => (WritesHead \/ PutsLast \/ WriteRaises)]_vars

\* a str that had its terminator was written as it is, and then bytes that
\* lacked it were written with it
C28_Witness ==
    /\ ~stop /\ err = NoExc
    /\ tx_q = <<>>
    /\ wire = << <<"A", "T", "I", CR, LF>>, <<"A", "T", CR, LF>> >>

\* the values a decoded parameter list holds: the elements of its arrays and
\* its other params
RECURSIVE ValueCount(_)
ValueCount(ps) ==
    IF ps = <<>> THEN 0
    ELSE (IF Head(ps).t = "list" THEN Len(Head(ps).v) ELSE 1) + ValueCount(Tail(ps))

\* the comma-separated tokens of a parameter list
TokenCount(s) == Len(Split(s, AT_PARAM_SEP))

\* C29: a decoded parameter list holds one value for each comma-separated
\* token of its text, in its arrays or at top level: none dropped, none
\* invented, whether or not its arrays are opened and closed in pairs.
C29_OneValuePerToken ==
    (ParamsParsed /\ out_params.exc = "none") =>
        ValueCount(out_params.val) = TokenCount(in_str)

\* the fault the thread caught waits on the inbound queue
FaultQueued == \E i \in 1..Len(rx_q) : rx_q[i] = ExcItem(err)

\* the caller has had the fault: raised as it is by _raise_thread_errors,
\* or as the text of a ChatError by _read
FaultTaken == \E i \in 1..Len(ops) : ops[i].exc \in {err, ChatError(err.msg)}

\* the step is the thread's own close(), at the end of run
MarksItselfClosed == t_pc = "finally" /\ t_pc' = "done"

\* the step ends an operation with 'Thread closed unexpectedly.'
RaisesThreadClosed ==
    /\ Len(ops') = Len(ops) + 1
    /\ ops'[Len(ops')].exc = ThreadClosed

\* C30: when the thread marks itself closed, a fault it caught has been put
\* on the inbound queue (it waits there or the caller has had it); and when
\* the caller raises 'Thread closed unexpectedly.', either the thread caught
\* no fault or the caller has had the fault before and it waits no more.
C30_FaultBeforeClosed ==
    [][/\ MarksItselfClosed => (err = NoExc \/ FaultQueued \/ FaultTaken)
       /\ RaisesThreadClosed => (err = NoExc \/ (FaultTaken /\ ~FaultQueued))]_vars

\* the caller had the fault of a write or read that raised, and its next
\* send_cmd found the thread closed and the queue empty
C30_Witness ==
    /\ err = IoFault
    /\ rx_log # <<>>
    /\ Len(ops) = 2
    /\ ops[1].exc \in {err, ChatError(err.msg)}
    /\ ops[2].exc = ThreadClosed
    /\ rx_q = <<>>

\* a parsed line is a Command
IsCommand(p) == p.exc = "none" /\ ~p.list /\ p.val.type \in CommandTypes

\* a parsed line is a CompoundCommand: a list of dicts
IsCompound(p) == p.exc = "none" /\ p.list

\* the step passes one more line to parse_string
DecodesLine == Len(decoded') = Len(decoded) + 1

\* the result of the line the step decodes
LineDecoded == decoded'[Len(decoded')].res

\* send_cmd goes on to its next _read with nothing returned, nothing added
\* to the list and nothing raised
KeepsWaiting == c_pc' = "read" /\ result' = result /\ ops' = ops

\* C31: a step of send_cmd that decodes a line to a Command or to a
\* CompoundCommand skips the line: the operation does not end, by return or
\* by exception, the intermediate list is as it was, and send_cmd goes on
\* to read the next line.
C31_CommandLinesSkipped ==
    [][(DecodesLine /\ (IsCommand(LineDecoded) \/ IsCompound(LineDecoded)))
          => KeepsWaiting]_vars

\* the same for the lines that decode to one Command
CommandSkipped ==
    [][(DecodesLine /\ IsCommand(LineDecoded)) => KeepsWaiting]_vars
====
